---- MODULE Spec2Model ----
(***************************************************************************)
(* A model of pymel's core/language.py: the MEL <-> Python glue            *)
(* (pythonToMel, getMelType, MelGlobals) and the maya.mel wrapper (Mel).   *)
(*                                                                         *)
(* Python strings are modelled as sequences of one-character strings, so   *)
(* that formatting, joining, substring tests, startswith/endswith and      *)
(* split are computed the way the code computes them.                      *)
(***************************************************************************)
EXTENDS Integers, Sequences, FiniteSets, TLC

VARIABLES
    \* ---- Mel.eval ----
    pc,          \* "idle" | "executing": position inside Mel.eval
    cmd,         \* the command string being (or last) evaluated
    undoState,   \* eval's local undoState, read from cmds.undoInfo(q=1, state=1)
    hostUndo,    \* the host's undo setting
    errors,      \* the module-global list `errors`
    delivered,   \* the output line the host delivered last to the callback
                 \* of the running eval: errorCallback's arguments
    callbacks,   \* ids registered with the host's MCommandMessage
    nextId,      \* the host's next fresh callback id
    id,          \* eval's local `id`
    installed,   \* every id eval has added, in order
    removed,     \* every id eval has removed, in order
    execOk,      \* "none" | "ok" | "failed": did executeCommand raise
    res,         \* the MCommandResult filled by executeCommand
    result,      \* eval's local `result` container after getResult
    outcome,     \* what the last eval returned or raised
    \* ---- Mel.__getattr__ ----
    evalLog,     \* command strings handed to Mel.eval by _call
    callIn,      \* the last attribute-style invocation
    callOut,     \* what that invocation returned or raised
    \* ---- pythonToMel ----
    convArg, convRes,
    \* ---- getMelType ----
    gmtArg, gmtRes,
    \* ---- MelGlobals ----
    typeMap,     \* MelGlobals.typeMap
    melVars,     \* the interpreter's declared global variables: name -> type
    sent,        \* commands sent to the interpreter by the last call
    lastCall     \* the last initVar/get/set call and what it did

evalVars == <<pc, cmd, undoState, hostUndo, errors, delivered, callbacks, nextId,
              id, installed,
              removed, execOk, res, result, outcome>>
callVars == <<evalLog, callIn, callOut>>
convVars == <<convArg, convRes>>
gmtVars  == <<gmtArg, gmtRes>>
globVars == <<typeMap, melVars, sent, lastCall>>
vars == <<evalVars, callVars, convVars, gmtVars, globVars>>

-----------------------------------------------------------------------------
(* Bounds *)
MaxErrors == 2     \* messages collected during one eval
MaxEvals  == 2     \* eval calls in one behaviour
MaxArray  == 2     \* elements of an array result
MaxArgs   == 2     \* positional arguments of one invocation
MaxFlags  == 2     \* keyword arguments of one invocation
MaxItems  == 2     \* elements of a python list

-----------------------------------------------------------------------------
(* Python string operations *)

\* `p in s`
Contains(s, p) ==
    \E i \in 1..(Len(s) - Len(p) + 1) : SubSeq(s, i, i + Len(p) - 1) = p

\* s.startswith(p)
StartsWith(s, p) == Len(s) >= Len(p) /\ SubSeq(s, 1, Len(p)) = p

\* s.endswith(p)
EndsWith(s, p) ==
    Len(s) >= Len(p) /\ SubSeq(s, Len(s) - Len(p) + 1, Len(s)) = p

\* sep.join(list)
RECURSIVE Join(_, _)
Join(sep, list) ==
    IF list = <<>> THEN <<>>
    ELSE IF Len(list) = 1 THEN list[1]
    ELSE list[1] \o sep \o Join(sep, Tail(list))

NL == <<"\n">>

-----------------------------------------------------------------------------
(* Exceptions *)

\* the direct bases of each exception class
Bases(c) ==
    CASE c = "MelError"            -> {"RuntimeError"}
      [] c = "MelConversionError"  -> {"MelError", "TypeError"}
      [] c = "UnknownMelProcedure" -> {"MelError", "NameError"}
      [] c = "MelArgumentError"    -> {"MelError", "TypeError"}
      [] OTHER                     -> {}

\* issubclass(c, d)
IsSubclass(c, d) ==
    \/ c = d
    \/ d \in Bases(c)
    \/ \E b \in Bases(c) : d \in Bases(b)

NoValue == [cat |-> "NoneType", val |-> <<>>]

Returned(v) == [kind |-> "return", exc |-> "", msg |-> <<>>, value |-> v]
Raised(e, m) == [kind |-> "raise", exc |-> e, msg |-> m, value |-> NoValue]
NoOutcome == [kind |-> "none", exc |-> "", msg |-> <<>>, value |-> NoValue]

-----------------------------------------------------------------------------
(* Mel.eval: the error classifier *)

S_CannotFindProcedure == <<"C","a","n","n","o","t"," ","f","i","n","d"," ","p","r","o","c","e","d","u","r","e">>
S_WrongNumberOfArguments == <<"W","r","o","n","g"," ","n","u","m","b","e","r"," ","o","f"," ","a","r","g","u","m","e","n","t","s">>
S_CannotConvertData == <<"C","a","n","n","o","t"," ","c","o","n","v","e","r","t"," ","d","a","t","a">>
S_CannotCastData == <<"C","a","n","n","o","t"," ","c","a","s","t"," ","d","a","t","a">>
S_ErrorOccurred == <<"E","r","r","o","r"," ","o","c","c","u","r","r","e","d"," ","d","u","r","i","n","g"," ","e","x","e","c","u","t","i","o","n"," ","o","f"," ","M","E","L"," ","s","c","r","i","p","t",":"," ">>

\* the if/elif chain choosing the exception class from the joined text
ClassifyWrongFirst(msg) ==
    IF Contains(msg, S_WrongNumberOfArguments) THEN "MelArgumentError"
    ELSE IF Contains(msg, S_CannotFindProcedure) THEN "UnknownMelProcedure"
    ELSE IF Contains(msg, S_CannotConvertData) \/ Contains(msg, S_CannotCastData)
         THEN "MelConversionError"
    ELSE "MelError"

Classify(msg) ==
    IF Contains(msg, S_CannotFindProcedure) THEN "UnknownMelProcedure"
    ELSE IF Contains(msg, S_WrongNumberOfArguments) THEN "MelArgumentError"
    ELSE IF Contains(msg, S_CannotConvertData) \/ Contains(msg, S_CannotCastData)
         THEN "MelConversionError"
    ELSE "MelError"

\* the except branch's raise statement
EvalRaise(errs) ==
    LET msg == Join(NL, errs)
    IN  Raised(Classify(msg), S_ErrorOccurred \o msg)

\* the nested errorCallback: the new value of `errors`
errorCallback(errs, nativeMsg, messageType) ==
    IF messageType = "kError"
    THEN IF nativeMsg # <<>> THEN errs \o <<nativeMsg>> ELSE errs
    ELSE errs

\* diagnostic texts the host can emit while a command runs
M_find == <<"C","a","n","n","o","t"," ","f","i","n","d"," ","p","r","o","c","e","d","u","r","e"," ","\"","f","\"",".">>
M_args == <<"W","r","o","n","g"," ","n","u","m","b","e","r"," ","o","f"," ","a","r","g","u","m","e","n","t","s"," ","o","n"," ","c","a","l","l"," ","t","o"," ","f",".">>
M_conv == <<"C","a","n","n","o","t"," ","c","o","n","v","e","r","t"," ","d","a","t","a"," ","o","f"," ","t","y","p","e"," ","s","t","r","i","n","g"," ","t","o"," ","t","y","p","e"," ","f","l","o","a","t",".">>
M_cast == <<"C","a","n","n","o","t"," ","c","a","s","t"," ","d","a","t","a"," ","o","f"," ","t","y","p","e"," ","s","t","r","i","n","g"," ","t","o"," ","i","n","t",".">>
M_syntax == <<"S","y","n","t","a","x"," ","e","r","r","o","r">>
HostMessages == {<<>>, M_find, M_args, M_conv, M_cast, M_syntax}
MessageTypes == {"kError", "kWarning", "kResult"}

\* no output line delivered
NoDelivery == [nativeMsg |-> <<>>, messageType |-> "none"]

-----------------------------------------------------------------------------
(* Mel.eval: the result marshaler *)

\* host values: [cat |-> api class, val |-> data]; native values:
\* [cat |-> python type, val |-> data]
Py(c, v) == [cat |-> c, val |-> v]

ResultTypes ==
    {"kInvalid", "kInt", "kIntArray", "kDouble", "kDoubleArray", "kString",
     "kStringArray", "kVector", "kVectorArray", "kMatrix", "kMatrixArray"}

\* the container eval constructs in the branch for each result type
ContainerFor(resType) ==
    CASE resType = "kInt"         -> "intPtr"
      [] resType = "kIntArray"    -> "MIntArray"
      [] resType = "kDouble"      -> "doublePtr"
      [] resType = "kDoubleArray" -> "MDoubleArray"
      [] resType = "kString"      -> "stringResult"
      [] resType = "kStringArray" -> "list"
      [] resType = "kVector"      -> "MVector"
      [] resType = "kVectorArray" -> "MMatrixArray"
      [] resType = "kMatrix"      -> "MMatrix"
      [] resType = "kMatrixArray" -> "MMatrixArray"
      [] OTHER                    -> "none"

\* the result type each container of MCommandResult.getResult receives
Receives(container) ==
    CASE container = "intPtr"       -> "kInt"
      [] container = "MIntArray"    -> "kIntArray"
      [] container = "doublePtr"    -> "kDouble"
      [] container = "MDoubleArray" -> "kDoubleArray"
      [] container = "stringResult" -> "kString"
      [] container = "list"         -> "kStringArray"
      [] container = "MVector"      -> "kVector"
      [] container = "MVectorArray" -> "kVectorArray"
      [] container = "MMatrix"      -> "kMatrix"
      [] container = "MMatrixArray" -> "kMatrixArray"
      [] OTHER                      -> "kInvalid"

NoContainer == [cat |-> "none", ok |-> TRUE, val |-> <<>>]

\* res.getResult(result) / res.stringResult(): the container afterwards;
\* the host fails the call when the container is of another category
getResult(r, container) ==
    IF Receives(container) = r.cat
    THEN [cat |-> container, ok |-> TRUE, val |-> r.val]
    ELSE [cat |-> container, ok |-> FALSE, val |-> <<>>]

\* [ f(result[i]) for i in range( result.length() ) ]
PyList(c, data) ==
    Py("list", [i \in 1..Len(data) |-> Py(c, data[i])])

\* the else branch of eval after the callback is removed: the container
\* extracted and what eval returns or raises
EvalConvert(r) ==
    LET resType == r.cat
        got == getResult(r, ContainerFor(resType))
        ret(v) == [result |-> got, outcome |-> Returned(v)]
    IN  IF resType = "kInvalid"
        THEN [result |-> NoContainer, outcome |-> Returned(NoValue)]
        ELSE IF ~got.ok
        THEN [result |-> got, outcome |-> Raised("RuntimeError", <<>>)]
        ELSE CASE resType = "kInt"         -> ret(Py("int", got.val))
               [] resType = "kIntArray"    -> ret(PyList("int", got.val))
               [] resType = "kDouble"      -> ret(Py("float", got.val))
               [] resType = "kDoubleArray" -> ret(PyList("float", got.val))
               [] resType = "kString"      -> ret(Py("unicode", got.val))
               [] resType = "kStringArray" -> ret(PyList("unicode", got.val))
               [] resType = "kVector"      -> ret(Py("Vector", got.val))
               [] resType = "kVectorArray" -> ret(PyList("Vector", got.val))
               [] resType = "kMatrix"      -> ret(Py("Matrix", got.val))
               [] resType = "kMatrixArray" -> ret(PyList("Matrix", got.val))

\* values a command can leave in the MCommandResult
HostInts == {0, 7}
HostDoubles == {1, 5}
HostStrings == {<<>>, <<"a", "b">>}
HostVectors == {<<0, 0, 0>>, <<1, 2, 3>>}
HostMatrices == {<< <<1, 0>>, <<0, 1>> >>, << <<2, 3>>, <<4, 5>> >>}

ArraysOf(S) == UNION {[1..n -> S] : n \in 0..MaxArray}

HostResults ==
    {[cat |-> "kInvalid", val |-> <<>>]}
    \cup {[cat |-> "kInt", val |-> v] : v \in HostInts}
    \cup {[cat |-> "kIntArray", val |-> v] : v \in ArraysOf(HostInts)}
    \cup {[cat |-> "kDouble", val |-> v] : v \in HostDoubles}
    \cup {[cat |-> "kDoubleArray", val |-> v] : v \in ArraysOf(HostDoubles)}
    \cup {[cat |-> "kString", val |-> v] : v \in HostStrings}
    \cup {[cat |-> "kStringArray", val |-> v] : v \in ArraysOf(HostStrings)}
    \cup {[cat |-> "kVector", val |-> v] : v \in HostVectors}
    \cup {[cat |-> "kVectorArray", val |-> v] : v \in ArraysOf(HostVectors)}
    \cup {[cat |-> "kMatrix", val |-> v] : v \in HostMatrices}
    \cup {[cat |-> "kMatrixArray", val |-> v] : v \in ArraysOf(HostMatrices)}

NoResult == [cat |-> "kInvalid", val |-> <<>>]

-----------------------------------------------------------------------------
(* Mel.eval: the steps *)

\* command strings passed to Mel.eval directly
EvalCommands == {<<"f", "(", ")">>, <<"l", "s">>}

\* a variant of eval's entry that keeps the error list of the previous call
EvalEnterKeepsErrors(c) ==
    /\ pc = "idle"
    /\ nextId < MaxEvals
    /\ undoState' = hostUndo
    /\ delivered' = NoDelivery
    /\ id' = nextId
    /\ callbacks' = callbacks \cup {nextId}
    /\ installed' = Append(installed, nextId)
    /\ nextId' = nextId + 1
    /\ cmd' = c
    /\ pc' = "executing"
    /\ execOk' = "none"
    /\ res' = NoResult
    /\ result' = NoContainer
    /\ outcome' = NoOutcome
    /\ UNCHANGED <<hostUndo, removed, errors>>

\* eval up to the call of MGlobal.executeCommand: read the undo state, empty
\* the error list, install the callback
EvalEnter(c) ==
    /\ pc = "idle"
    /\ nextId < MaxEvals
    /\ undoState' = hostUndo
    /\ errors' = <<>>
    /\ delivered' = NoDelivery
    /\ id' = nextId
    /\ callbacks' = callbacks \cup {nextId}
    /\ installed' = Append(installed, nextId)
    /\ nextId' = nextId + 1
    /\ cmd' = c
    /\ pc' = "executing"
    /\ execOk' = "none"
    /\ res' = NoResult
    /\ result' = NoContainer
    /\ outcome' = NoOutcome
    /\ UNCHANGED <<hostUndo, removed>>

EvalBegin ==
    /\ \E c \in EvalCommands : EvalEnter(c)
    /\ UNCHANGED <<callVars, convVars, gmtVars, globVars>>

\* the host emits a line of command output while the command runs and
\* delivers it to the registered callback
HostMessage ==
    /\ pc = "executing"
    /\ id \in callbacks
    /\ \E nativeMsg \in HostMessages, messageType \in MessageTypes :
          /\ Len(errorCallback(errors, nativeMsg, messageType)) <= MaxErrors
          /\ errors' = errorCallback(errors, nativeMsg, messageType)
          /\ delivered' = [nativeMsg |-> nativeMsg, messageType |-> messageType]
    /\ UNCHANGED <<pc, cmd, undoState, hostUndo, callbacks, nextId, id, installed,
                   removed, execOk, res, result, outcome>>
    /\ UNCHANGED <<callVars, convVars, gmtVars, globVars>>

\* a variant of the except branch that leaves the callback registered
EvalExceptKeepsCallback ==
    /\ pc = "executing"
    /\ execOk' = "failed"
    /\ outcome' = EvalRaise(errors)
    /\ delivered' = NoDelivery
    /\ pc' = "idle"
    /\ UNCHANGED <<cmd, undoState, hostUndo, errors, callbacks, removed, nextId,
                   id, installed, res, result>>

\* executeCommand raised: the except branch
EvalExcept ==
    /\ pc = "executing"
    /\ execOk' = "failed"
    /\ callbacks' = callbacks \ {id}
    /\ removed' = Append(removed, id)
    /\ outcome' = EvalRaise(errors)
    /\ delivered' = NoDelivery
    /\ pc' = "idle"
    /\ UNCHANGED <<cmd, undoState, hostUndo, errors, nextId, id, installed,
                   res, result>>

ExecFail ==
    /\ EvalExcept
    /\ UNCHANGED <<callVars, convVars, gmtVars, globVars>>

\* executeCommand returned with r in the MCommandResult: the else branch
EvalElse(r) ==
    /\ pc = "executing"
    /\ execOk' = "ok"
    /\ res' = r
    /\ callbacks' = callbacks \ {id}
    /\ removed' = Append(removed, id)
    /\ result' = EvalConvert(r).result
    /\ outcome' = EvalConvert(r).outcome
    /\ delivered' = NoDelivery
    /\ pc' = "idle"
    /\ UNCHANGED <<cmd, undoState, hostUndo, errors, nextId, id, installed>>

ExecOk ==
    /\ \E r \in HostResults : EvalElse(r)
    /\ UNCHANGED <<callVars, convVars, gmtVars, globVars>>

NextEval == EvalBegin \/ HostMessage \/ ExecFail \/ ExecOk

-----------------------------------------------------------------------------
(* pythonToMel *)

\* python values are [cat |-> type name, val |-> data]:
\*   int    val is the integer
\*   str    val is the text
\*   PyNode val is the node's name (what str() gives)
\*   list   val is the sequence of elements
\*   Flags  an int subclass that also defines __iter__:
\*          val is [n |-> the integer, items |-> the elements]

\* util.isNumeric(arg)
isNumeric(arg) == arg.cat \in {"int", "float", "bool", "Flags"}

\* util.isIterable(arg)
isIterable(arg) == arg.cat \in {"list", "Vector", "Matrix", "Flags"}

\* the elements iterating over arg yields
Items(arg) == IF arg.cat = "Flags" THEN arg.val.items ELSE arg.val

Digits == <<"0", "1", "2", "3", "4", "5", "6", "7", "8", "9">>

\* str() of a non-negative integer
RECURSIVE NatStr(_)
NatStr(n) ==
    IF n < 10 THEN <<Digits[n + 1]>>
    ELSE NatStr(n \div 10) \o <<Digits[(n % 10) + 1]>>

\* str() of an integer
IntStr(n) == IF n < 0 THEN <<"-">> \o NatStr(0 - n) ELSE NatStr(n)

\* str(arg)
Str(arg) ==
    CASE arg.cat = "int"    -> IntStr(arg.val)
      [] arg.cat = "Flags"  -> IntStr(arg.val.n)
      [] arg.cat = "str"    -> arg.val
      [] arg.cat = "PyNode" -> arg.val

\* cmds.encodeString: escape the characters MEL treats specially inside a
\* double-quoted string
RECURSIVE encodeString(_)
encodeString(s) ==
    IF s = <<>> THEN <<>>
    ELSE LET c == Head(s)
             e == CASE c = "\"" -> <<"\\", "\"">>
                    [] c = "\\" -> <<"\\", "\\">>
                    [] c = "\n" -> <<"\\", "n">>
                    [] c = "\t" -> <<"\\", "t">>
                    [] OTHER    -> <<c>>
         IN  e \o encodeString(Tail(s))

\* a variant that tests for an iterable before it tests for a number
RECURSIVE pythonToMelIterableFirst(_)
pythonToMelIterableFirst(arg) ==
    IF isIterable(arg)
    THEN <<"{">>
         \o Join(<<",">>, [i \in 1..Len(Items(arg)) |->
                              pythonToMelIterableFirst(Items(arg)[i])])
         \o <<"}">>
    ELSE IF isNumeric(arg) THEN Str(arg)
    ELSE <<"\"">> \o encodeString(Str(arg)) \o <<"\"">>

RECURSIVE pythonToMel(_)
pythonToMel(arg) ==
    IF isNumeric(arg) THEN Str(arg)
    ELSE IF isIterable(arg)
    THEN <<"{">>
         \o Join(<<",">>, [i \in 1..Len(Items(arg)) |->
                              pythonToMel(Items(arg)[i])])
         \o <<"}">>
    ELSE <<"\"">> \o encodeString(Str(arg)) \o <<"\"">>

\* the values pythonToMel is applied to
ListsOf(S) == {Py("list", s) : s \in UNION {[1..n -> S] : n \in 0..MaxItems}}

ConvAtoms ==
    {Py("int", 0), Py("int", 12), Py("int", -3),
     Py("str", <<>>), Py("str", <<"a">>), Py("str", <<"a", "\"", "\\">>),
     Py("PyNode", <<"p", "|", "q">>),
     Py("Flags", [n |-> 3, items |-> <<Py("int", 1), Py("int", 2)>>])}

ConvNested ==
    {Py("int", 12), Py("str", <<"a">>), Py("list", <<>>),
     Py("list", <<Py("int", 12)>>),
     Py("list", <<Py("str", <<"a">>), Py("int", 0)>>)}

ConvValues == ConvAtoms \cup ListsOf(ConvAtoms) \cup ListsOf(ConvNested)

NoArg == Py("NoneType", <<>>)

\* one call pythonToMel(arg)
Convert ==
    /\ \E arg \in ConvValues :
          /\ convArg' = arg
          /\ convRes' = pythonToMel(arg)
    /\ UNCHANGED <<evalVars, callVars, gmtVars, globVars>>

NextConv == Convert

-----------------------------------------------------------------------------
(* Mel.eval as one step, for the callers of eval *)

\* the error list after the host delivered msgs (each <<text, type>>) in order
RECURSIVE Collect(_, _)
Collect(errs, msgs) ==
    IF msgs = <<>> THEN errs
    ELSE Collect(errorCallback(errs, msgs[1][1], msgs[1][2]), Tail(msgs))

\* one whole call eval(c), the host running the command as `run` says:
\* [ok |-> did executeCommand return, msgs |-> output delivered, res |-> result]
EvalCall(c, run) ==
    LET errs == Collect(<<>>, run.msgs)
        fin  == IF run.ok THEN EvalConvert(run.res)
                ELSE [result |-> NoContainer, outcome |-> EvalRaise(errs)]
    IN  /\ pc = "idle"
        /\ nextId < MaxEvals
        /\ undoState' = hostUndo
        /\ errors' = errs
        /\ delivered' = NoDelivery
        /\ id' = nextId
        /\ installed' = Append(installed, nextId)
        /\ callbacks' = (callbacks \cup {nextId}) \ {nextId}
        /\ removed' = Append(removed, nextId)
        /\ nextId' = nextId + 1
        /\ cmd' = c
        /\ pc' = "idle"
        /\ execOk' = IF run.ok THEN "ok" ELSE "failed"
        /\ res' = IF run.ok THEN run.res ELSE NoResult
        /\ result' = fin.result
        /\ outcome' = fin.outcome
        /\ UNCHANGED hostUndo

-----------------------------------------------------------------------------
(* Mel.__getattr__ *)

US == <<"_", "_">>

\* command.startswith('__') and command.endswith('__')
IsDunder(command) == StartsWith(command, US) /\ EndsWith(command, US)

\* [pythonToMel(arg) for arg in args]
StrArgs(args) == [i \in 1..Len(args) |-> pythonToMel(args[i])]

\* [ '-%s %s' % ( key, pythonToMel(val) ) for key, val in kwargs.items() ];
\* kwargs is the sequence kwargs.items() yields
StrFlags(kwargs) ==
    [i \in 1..Len(kwargs) |->
        <<"-">> \o kwargs[i].key \o <<" ">> \o pythonToMel(kwargs[i].val)]

\* a variant that always builds the function-call form
CallCmdNoFlags(command, args, kwargs) ==
    command \o <<"(">> \o Join(<<",">>, StrArgs(args)) \o <<")">>

\* the command string _call builds
CallCmd(command, args, kwargs) ==
    IF kwargs # <<>>
    THEN command \o <<" ">> \o Join(<<" ">>, StrFlags(kwargs))
                 \o <<" ">> \o Join(<<" ">>, StrArgs(args))
    ELSE command \o <<"(">> \o Join(<<",">>, StrArgs(args)) \o <<")">>

\* the inputs of an invocation
CallCommands ==
    {<<"l", "s">>, <<"_", "_", "l", "s">>, <<"_", "_", "l", "s", "_", "_">>}
CallKeys == {<<"q">>, <<"t", "y">>}
CallValues == {Py("int", 1), Py("str", <<"a">>)}
CallFlagValues == {Py("str", <<"b">>)}
CallArgs == UNION {[1..n -> CallValues] : n \in 0..MaxArgs}
CallKwargs ==
    {kw \in UNION {[1..n -> [key : CallKeys, val : CallFlagValues]] : n \in 0..MaxFlags} :
        \A i, j \in 1..Len(kw) : i # j => kw[i].key # kw[j].key}

\* how the host runs a command handed over by _call
CallRuns ==
    {[ok |-> TRUE, msgs |-> <<>>, res |-> [cat |-> "kInt", val |-> 7]],
     [ok |-> FALSE, msgs |-> <<<<M_find, "kError">>>>, res |-> NoResult]}

NoCall == [command |-> <<>>, args |-> <<>>, kwargs |-> <<>>]

\* mel.<command> for a name that starts and ends with '__': __getattr__
\* looks the name up in self.__dict__, where it is not (or __getattr__ would
\* not have been called), so KeyError is raised and _call is never made
MelGetattrDunder ==
    /\ \E command \in {c \in CallCommands : IsDunder(c)} :
          /\ callIn' = [command |-> command, args |-> <<>>, kwargs |-> <<>>]
          /\ evalLog' = <<>>
          /\ callOut' = Raised("KeyError", command)
    /\ UNCHANGED <<evalVars, convVars, gmtVars, globVars>>

\* mel.<command>(*args, **kwargs) for any other name: __getattr__ returns
\* _call, which is called with the arguments
MelCall ==
    /\ \E command \in {c \in CallCommands : ~IsDunder(c)},
          args \in CallArgs, kwargs \in CallKwargs :
          /\ callIn' = [command |-> command, args |-> args, kwargs |-> kwargs]
          /\ evalLog' = <<CallCmd(command, args, kwargs)>>
          /\ \E run \in CallRuns :
                EvalCall(CallCmd(command, args, kwargs), run)
          /\ callOut' = outcome'
    /\ UNCHANGED <<convVars, gmtVars, globVars>>

NextCall == MelGetattrDunder \/ MelCall

-----------------------------------------------------------------------------
(* getMelType *)

T_string == <<"s","t","r","i","n","g">>
T_bool == <<"b","o","o","l">>
T_int == <<"i","n","t">>
T_float == <<"f","l","o","a","t">>
T_vector == <<"v","e","c","t","o","r">>
T_matrix == <<"m","a","t","r","i","x">>
T_intArray == <<"i","n","t","[","]">>
T_stringArray == <<"s","t","r","i","n","g","[","]">>
S_Brackets == <<"[","]">>

\* a class object is Py("type", class name); an instance of class c is
\* Py(c, data)
Classes ==
    {"str", "unicode", "bool", "int", "float", "Vector", "Matrix", "list",
     "MyClass"}

\* the classes a class inherits from, itself included
Ancestors(c) ==
    CASE c = "str"     -> {"str", "basestring", "object"}
      [] c = "unicode" -> {"unicode", "basestring", "object"}
      [] c = "bool"    -> {"bool", "int", "object"}
      [] c = "int"     -> {"int", "object"}
      [] c = "float"   -> {"float", "object"}
      [] c = "Vector"  -> {"Vector", "VectorN", "object"}
      [] c = "Matrix"  -> {"Matrix", "MatrixN", "object"}
      [] c = "list"    -> {"list", "object"}
      [] c = "MyClass" -> {"MyClass", "object"}

\* cls.__name__
ClassName(c) ==
    CASE c = "str"     -> <<"s", "t", "r">>
      [] c = "unicode" -> <<"u", "n", "i", "c", "o", "d", "e">>
      [] c = "bool"    -> T_bool
      [] c = "int"     -> T_int
      [] c = "float"   -> T_float
      [] c = "Vector"  -> <<"V", "e", "c", "t", "o", "r">>
      [] c = "Matrix"  -> <<"M", "a", "t", "r", "i", "x">>
      [] c = "list"    -> <<"l","i","s","t">>
      [] c = "MyClass" -> <<"M","y","C","l","a","s","s">>

\* inspect.isclass(pyObj)
isclass(pyObj) == pyObj.cat = "type"

\* issubclass(pyObj, base) for a class object pyObj
issubclass(pyObj, base) == base \in Ancestors(pyObj.val)

\* isinstance(pyObj, base) for an instance pyObj
isinstance(pyObj, base) == base \in Ancestors(pyObj.cat)

\* what the try body `return getMelType( pyObj=arg[0], exactOnly=True ) + '[]'`
\* raises: the name `arg` is bound neither in getMelType (its parameter is
\* pyObj) nor in the module, so evaluating arg[0] raises NameError before
\* anything else of the statement is evaluated
IterableTryRaises == "NameError"

PyStr(s) == Py("str", s)

\* getMelType( pyObj, exactOnly, allowBool, allowMatrix ): the value returned
getMelType(pyObj, exactOnly, allowBool, allowMatrix) ==
    IF isclass(pyObj)
    THEN IF issubclass(pyObj, "basestring") THEN PyStr(T_string)
         ELSE IF allowBool /\ issubclass(pyObj, "bool") THEN PyStr(T_bool)
         ELSE IF issubclass(pyObj, "int") THEN PyStr(T_int)
         ELSE IF issubclass(pyObj, "float") THEN PyStr(T_float)
         ELSE IF issubclass(pyObj, "VectorN") THEN PyStr(T_vector)
         ELSE IF issubclass(pyObj, "MatrixN")
              THEN IF allowMatrix THEN PyStr(T_matrix) ELSE PyStr(T_intArray)
         ELSE IF ~exactOnly THEN PyStr(ClassName(pyObj.val))
         ELSE NoValue
    ELSE IF isIterable(pyObj)
         THEN \* try: return getMelType( pyObj=arg[0], exactOnly=True ) + '[]'
              IF IterableTryRaises = "IndexError"
              THEN PyStr(T_stringArray)     \* except IndexError
              ELSE NoValue                  \* except: return
         ELSE IF isinstance(pyObj, "basestring") THEN PyStr(T_string)
         ELSE IF allowBool /\ isinstance(pyObj, "bool") THEN PyStr(T_bool)
         ELSE IF isinstance(pyObj, "int") THEN PyStr(T_int)
         ELSE IF isinstance(pyObj, "float") THEN PyStr(T_float)
         ELSE IF isinstance(pyObj, "VectorN") THEN PyStr(T_vector)
         ELSE IF isinstance(pyObj, "MatrixN")
              THEN IF allowMatrix THEN PyStr(T_matrix) ELSE PyStr(T_intArray)
         ELSE IF ~exactOnly
              THEN NoValue    \* typeStr is assigned and the function ends
         ELSE NoValue

\* the objects getMelType is applied to
GmtObjects ==
    {Py("type", c) : c \in Classes}
    \cup {Py("str", <<"a">>), Py("unicode", <<"a">>), Py("bool", TRUE),
          Py("int", 1), Py("float", 5), Py("Vector", <<1, 2, 3>>),
          Py("Matrix", << <<1, 0>>, <<0, 1>> >>), Py("MyClass", <<>>)}
    \cup ListsOf({Py("int", 1), Py("str", <<"a">>)})

NoGmtArg ==
    [pyObj |-> NoArg, exactOnly |-> TRUE, allowBool |-> FALSE,
     allowMatrix |-> FALSE]

\* one call of getMelType
GetMelType ==
    /\ \E pyObj \in GmtObjects, exactOnly \in BOOLEAN, allowBool \in BOOLEAN,
          allowMatrix \in BOOLEAN :
          /\ gmtArg' = [pyObj |-> pyObj, exactOnly |-> exactOnly,
                        allowBool |-> allowBool, allowMatrix |-> allowMatrix]
          /\ gmtRes' = Returned(getMelType(pyObj, exactOnly, allowBool,
                                           allowMatrix))
    /\ UNCHANGED <<evalVars, callVars, convVars, globVars>>

NextGmt == GetMelType

-----------------------------------------------------------------------------
(* MelGlobals *)

T_floatArray == <<"f","l","o","a","t","[","]">>
T_vectorArray == <<"v","e","c","t","o","r","[","]">>

\* the list MELTYPES (also MelGlobals.validTypes)
MELTYPES ==
    <<T_string, T_stringArray, T_int, T_intArray, T_float, T_floatArray,
      T_vector, T_vectorArray>>

\* typStr in MELTYPES
isValidMelType(typStr) == \E i \in 1..Len(MELTYPES) : MELTYPES[i] = typStr

S_Dollar == <<"$">>
S_variable == <<"v","a","r","i","a","b","l","e">>
S_Unknown == <<"U","n","k","n","o","w","n">>
S_whatIs == <<"w","h","a","t","I","s">>
S_pymel_get_global == <<"p","y","m","e","l","_","g","e","t","_","g","l","o","b","a","l","_">>
S_Array == <<"A","r","r","a","y">>

\* a variant that returns the name as given
FormatVariableAsGiven(variable) == variable

\* MelGlobals._formatVariable
FormatVariable(variable) ==
    IF ~StartsWith(variable, S_Dollar) THEN S_Dollar \o variable ELSE variable

\* s.split(): the maximal runs of non-blank characters
RECURSIVE SplitFrom(_, _, _)
SplitFrom(s, word, out) ==
    IF s = <<>> THEN (IF word = <<>> THEN out ELSE Append(out, word))
    ELSE IF Head(s) \in {" ", "\t", "\n"}
    THEN SplitFrom(Tail(s), <<>>, IF word = <<>> THEN out ELSE Append(out, word))
    ELSE SplitFrom(Tail(s), Append(word, Head(s)), out)

Split(s) == SplitFrom(s, <<>>, <<>>)

\* what the interpreter answers to whatIs("<name>"), given its declared globals
HostWhatIs(mv, name) ==
    IF name \in DOMAIN mv THEN mv[name] \o <<" ">> \o S_variable ELSE S_Unknown

\* how the host runs the command mel.whatIs hands to eval
WhatIsRun(mv, name) ==
    [ok |-> TRUE, msgs |-> <<>>,
     res |-> [cat |-> "kString", val |-> HostWhatIs(mv, name)]]

\* the command string of mel.whatIs( variable )
WhatIsCmd(variable) == CallCmd(S_whatIs, <<PyStr(variable)>>, <<>>)

\* MelGlobals.getType: [ok, type, evals]; not ok means TypeError
getType(mv, variable0) ==
    LET variable == FormatVariable(variable0)
        text == EvalConvert(WhatIsRun(mv, variable).res).outcome.value.val
        info == Split(text)
    IN  IF Len(info) = 2 /\ info[2] = S_variable
        THEN [ok |-> TRUE, type |-> info[1], evals |-> <<WhatIsCmd(variable)>>]
        ELSE [ok |-> FALSE, type |-> <<>>, evals |-> <<WhatIsCmd(variable)>>]

\* a variant of initVar that records the type without testing it against the
\* valid types
initVarUnchecked(tm, type, variable0) ==
    LET variable == FormatVariable(variable0)
    IN  [ok |-> TRUE,
         typeMap |-> [k \in DOMAIN tm \cup {variable} |->
                         IF k = variable THEN type ELSE tm[k]],
         variable |-> variable]

\* MelGlobals.initVar: [ok, typeMap, variable]; not ok means TypeError
initVar(tm, type, variable0) ==
    IF ~isValidMelType(type)
    THEN [ok |-> FALSE, typeMap |-> tm, variable |-> variable0]
    ELSE LET variable == FormatVariable(variable0)
         IN  [ok |-> TRUE,
              typeMap |-> [k \in DOMAIN tm \cup {variable} |->
                              IF k = variable THEN type ELSE tm[k]],
              variable |-> variable]

\* an optional argument: <<>> is None, <<t>> is the value t
None == <<>>
Some(t) == <<t>>

\* a variant that consults the cache before the explicitly passed type
ResolveTypeCacheFirst(tm, mv, variable, type) ==
    IF variable \in DOMAIN tm
    THEN [ok |-> TRUE, type |-> tm[variable], evals |-> <<>>]
    ELSE IF type # None
    THEN [ok |-> TRUE, type |-> type[1], evals |-> <<>>]
    ELSE getType(mv, variable)

\* the `if type is None: try ... except KeyError ...` block of get and set
ResolveType(tm, mv, variable, type) ==
    IF type # None
    THEN [ok |-> TRUE, type |-> type[1], evals |-> <<>>]
    ELSE IF variable \in DOMAIN tm
    THEN [ok |-> TRUE, type |-> tm[variable], evals |-> <<>>]
    ELSE getType(mv, variable)

\* type[:-2]
DropLast2(s) == SubSeq(s, 1, Len(s) - 2)

\* the command string get builds
GetCmd(type0, variable) ==
    LET ret_type == type0
        array == EndsWith(type0, S_Brackets)
        type == IF array THEN DropLast2(type0) ELSE type0
        proc_name == IF array THEN S_pymel_get_global \o type \o S_Array
                     ELSE S_pymel_get_global \o type
        decl_name == IF array /\ ~EndsWith(variable, S_Brackets)
                     THEN variable \o S_Brackets ELSE variable
    IN  <<"g","l","o","b","a","l"," ","p","r","o","c"," ">>
        \o ret_type \o <<" ">> \o proc_name
        \o <<"(",")"," ","{"," ","g","l","o","b","a","l"," ">>
        \o type \o <<" ">> \o decl_name
        \o <<";"," ","r","e","t","u","r","n"," ">>
        \o variable
        \o <<";"," ","}"," ">>
        \o proc_name \o <<"(",")",";">>

\* the command string set builds
SetCmd(type0, variable, value) ==
    LET array == EndsWith(type0, S_Brackets)
        type == IF array THEN DropLast2(type0) ELSE type0
        decl_name == IF array THEN variable \o S_Brackets ELSE variable
    IN  <<"g","l","o","b","a","l"," ">> \o type \o <<" ">> \o decl_name
        \o <<";"," ">> \o variable \o <<"=">> \o pythonToMel(value) \o <<";">>

\* the interpreter running a command that declares `global <type> <variable>`:
\* it fails when the variable is already declared with another type;
\* otherwise the variable is declared
HostDeclare(mv, type, variable) ==
    IF variable \in DOMAIN mv /\ mv[variable] # type
    THEN [ok |-> FALSE, melVars |-> mv]
    ELSE [ok |-> TRUE,
          melVars |-> [k \in DOMAIN mv \cup {variable} |->
                          IF k = variable THEN type ELSE mv[k]]]

\* the results of the three operations: the new typeMap, the interpreter's new
\* globals, the commands handed to Mel.eval (evals) and to maya.mel.eval
\* (sent), and what the call returns or raises
GlobalsResult(tm, mv, evals, cmds, out) ==
    [typeMap |-> tm, melVars |-> mv, evals |-> evals, sent |-> cmds,
     outcome |-> out]

\* MelGlobals.initVar( type, variable ) as a call of its own
InitVarStep(tm, mv, type, variable0) ==
    LET iv == initVar(tm, type, variable0)
    IN  IF ~iv.ok
        THEN GlobalsResult(tm, mv, <<>>, <<>>, Raised("TypeError", <<>>))
        ELSE GlobalsResult(iv.typeMap, mv, <<>>, <<>>,
                           Returned(PyStr(iv.variable)))

\* MelGlobals.get( variable, type )
GetStep(tm, mv, variable0, type0) ==
    LET variable == FormatVariable(variable0)
        r == ResolveType(tm, mv, variable, type0)
    IN  IF ~r.ok
        THEN GlobalsResult(tm, mv, r.evals, <<>>, Raised("TypeError", <<>>))
        ELSE LET iv == initVar(tm, r.type, variable)
             IN  IF ~iv.ok
                 THEN GlobalsResult(tm, mv, r.evals, <<>>,
                                    Raised("TypeError", <<>>))
                 ELSE LET h == HostDeclare(mv, r.type, iv.variable)
                          got == [type |-> r.type, variable |-> iv.variable]
                      IN  GlobalsResult(
                              iv.typeMap, h.melVars, r.evals,
                              <<GetCmd(r.type, iv.variable)>>,
                              IF ~h.ok THEN Raised("RuntimeError", <<>>)
                              ELSE IF EndsWith(r.type, S_Brackets)
                              THEN Returned(Py("MelGlobalArray", got))
                              ELSE Returned(Py("melValue", got)))

\* MelGlobals.set( variable, value, type )
SetStep(tm, mv, variable0, value, type0) ==
    LET variable == FormatVariable(variable0)
        r == ResolveType(tm, mv, variable, type0)
    IN  IF ~r.ok
        THEN GlobalsResult(tm, mv, r.evals, <<>>, Raised("TypeError", <<>>))
        ELSE LET iv == initVar(tm, r.type, variable)
             IN  IF ~iv.ok
                 THEN GlobalsResult(tm, mv, r.evals, <<>>,
                                    Raised("TypeError", <<>>))
                 ELSE LET h == HostDeclare(mv, r.type, iv.variable)
                      IN  GlobalsResult(
                              iv.typeMap, h.melVars, r.evals,
                              <<SetCmd(r.type, iv.variable, value)>>,
                              IF ~h.ok THEN Raised("RuntimeError", <<>>)
                              ELSE Returned(NoValue))

\* the inputs of the MelGlobals calls
GlobalNames == {<<"x">>, <<"$", "x">>, <<"g">>, <<"$", "g">>}
GlobalTypes == {T_int, T_stringArray, T_matrix}
GlobalTypeArgs == {None} \cup {Some(t) : t \in GlobalTypes}
GlobalValues == {Py("int", 1), Py("str", <<"a">>)}

\* the globals the interpreter has declared before the first call
InitialMelVars == [k \in {<<"$", "g">>} |-> T_stringArray]

NoGlobalsCall ==
    [op |-> "none", variable |-> <<>>, type |-> None, value |-> NoArg,
     evals |-> <<>>, outcome |-> NoOutcome]

\* the state after a MelGlobals call with result s; a whatIs query goes
\* through mel.whatIs, that is through Mel.eval
GlobalsDone(op, variable, type, value, s) ==
    /\ typeMap' = s.typeMap
    /\ melVars' = s.melVars
    /\ sent' = s.sent
    /\ lastCall' = [op |-> op, variable |-> variable, type |-> type,
                    value |-> value, evals |-> s.evals,
                    outcome |-> s.outcome]
    /\ IF s.evals # <<>>
       THEN EvalCall(s.evals[1], WhatIsRun(melVars, FormatVariable(variable)))
       ELSE UNCHANGED evalVars
    /\ UNCHANGED <<callVars, convVars, gmtVars>>

InitVar ==
    \E variable \in GlobalNames, type \in GlobalTypes :
        GlobalsDone("initVar", variable, Some(type), NoArg,
                    InitVarStep(typeMap, melVars, type, variable))

Get ==
    \E variable \in GlobalNames, type \in GlobalTypeArgs :
        GlobalsDone("get", variable, type, NoArg,
                    GetStep(typeMap, melVars, variable, type))

Set ==
    \E variable \in GlobalNames, value \in GlobalValues,
       type \in GlobalTypeArgs :
        GlobalsDone("set", variable, type, value,
                    SetStep(typeMap, melVars, variable, value, type))

NextGlobals == InitVar \/ Get \/ Set

-----------------------------------------------------------------------------
(* Specifications *)

Init ==
    /\ pc = "idle"
    /\ cmd = <<>>
    /\ undoState = TRUE
    /\ hostUndo = TRUE
    /\ errors = <<>>
    /\ delivered = NoDelivery
    /\ callbacks = {}
    /\ nextId = 0
    /\ id = 0
    /\ installed = <<>>
    /\ removed = <<>>
    /\ execOk = "none"
    /\ res = NoResult
    /\ result = NoContainer
    /\ outcome = NoOutcome
    /\ evalLog = <<>>
    /\ callIn = NoCall
    /\ callOut = NoOutcome
    /\ convArg = NoArg
    /\ convRes = <<>>
    /\ gmtArg = NoGmtArg
    /\ gmtRes = NoOutcome
    /\ typeMap = <<>>
    /\ melVars = InitialMelVars
    /\ sent = <<>>
    /\ lastCall = NoGlobalsCall

Next == NextEval \/ NextCall \/ NextConv \/ NextGmt \/ NextGlobals

\* direct calls of Mel.eval
SpecEval == Init /\ [][NextEval]_vars
\* attribute-style invocations mel.<command>(...)
SpecCall == Init /\ [][NextCall]_vars
\* calls of pythonToMel
SpecConv == Init /\ [][NextConv]_vars
\* calls of getMelType
SpecGmt == Init /\ [][NextGmt]_vars
\* calls of MelGlobals.initVar, get and set
SpecGlobals == Init /\ [][NextGlobals]_vars
\* everything together
Spec == Init /\ [][Next]_vars

-----------------------------------------------------------------------------
(* Claims about Mel.eval, checked under SpecEval *)

\* the diagnostic text captured during the last eval
CapturedText == Join(NL, errors)

MelErrorCategories ==
    {"UnknownMelProcedure", "MelArgumentError", "MelConversionError", "MelError"}

\* C1: when command execution inside Mel.eval fails, the raised error's
\* category follows the captured text in fixed priority: "Cannot find
\* procedure" gives UnknownMelProcedure; otherwise "Wrong number of arguments"
\* gives MelArgumentError; otherwise "Cannot convert data" or "Cannot cast
\* data" gives MelConversionError; otherwise (empty text included) MelError.
\* Exactly one of the four is raised and each is a MelError.
C1_ErrorCategory ==
    (pc = "idle" /\ execOk = "failed") =>
        LET find == Contains(CapturedText, S_CannotFindProcedure)
            args == Contains(CapturedText, S_WrongNumberOfArguments)
            conv == \/ Contains(CapturedText, S_CannotConvertData)
                    \/ Contains(CapturedText, S_CannotCastData)
        IN  /\ outcome.kind = "raise"
            /\ outcome.exc \in MelErrorCategories
            /\ IsSubclass(outcome.exc, "MelError")
            /\ find => outcome.exc = "UnknownMelProcedure"
            /\ (~find /\ args) => outcome.exc = "MelArgumentError"
            /\ (~find /\ ~args /\ conv) => outcome.exc = "MelConversionError"
            /\ (~find /\ ~args /\ ~conv) => outcome.exc = "MelError"

\* a failing eval whose text holds both of the first two substrings, the
\* argument-count one delivered first
C1_Witness ==
    /\ pc = "idle"
    /\ execOk = "failed"
    /\ errors = <<M_args, M_find>>
    /\ outcome.exc = "UnknownMelProcedure"

\* C2: every eval installs exactly one callback before the command runs and
\* removes that same callback exactly once before it returns or raises, on
\* the success and on the failure path; between evals no callback installed
\* by eval is registered.
C2_CallbackTransient ==
    /\ \A i, j \in 1..Len(installed) : i # j => installed[i] # installed[j]
    /\ pc = "idle" => (callbacks = {} /\ removed = installed)
    /\ pc = "executing" =>
          (callbacks = {id} /\ installed = Append(removed, id))

\* two evals done, the first succeeded or failed, the second failed
C2_Witness ==
    /\ pc = "idle"
    /\ Len(removed) = 2
    /\ execOk = "failed"

IsArrayType(resType) ==
    resType \in {"kIntArray", "kDoubleArray", "kStringArray", "kVectorArray",
                 "kMatrixArray"}

\* C4: on success eval returns a single native value for a scalar result
\* (int, double, string, vector, matrix), a list of the result's length
\* holding the result's elements in order for an array result, and None for
\* an invalid result.
C4_ScalarOrArray ==
    (pc = "idle" /\ execOk = "ok") =>
        /\ outcome.kind = "return"
        /\ IF res.cat = "kInvalid" THEN outcome.value = NoValue
           ELSE IF IsArrayType(res.cat)
           THEN /\ outcome.value.cat = "list"
                /\ Len(outcome.value.val) = Len(res.val)
                /\ \A i \in 1..Len(res.val) :
                      outcome.value.val[i].val = res.val[i]
           ELSE /\ outcome.value.cat \notin {"list", "NoneType"}
                /\ outcome.value.val = res.val

\* the native type of a scalar result, or of an array result's elements
NativeTypeOf(resType) ==
    CASE resType \in {"kInt", "kIntArray"}       -> "int"
      [] resType \in {"kDouble", "kDoubleArray"} -> "float"
      [] resType \in {"kString", "kStringArray"} -> "unicode"
      [] resType \in {"kVector", "kVectorArray"} -> "Vector"
      [] resType \in {"kMatrix", "kMatrixArray"} -> "Matrix"

\* C5: for each of the ten result categories eval extracts the result into a
\* container of that same category and converts it to the matching native
\* type; a vector-array result is read as an array of vectors and returned as
\* a list of Vector, a matrix-array result as a list of Matrix.
C5_SameCategory ==
    (pc = "idle" /\ execOk = "ok" /\ res.cat # "kInvalid") =>
        /\ Receives(result.cat) = res.cat
        /\ outcome.kind = "return"
        /\ IF IsArrayType(res.cat)
           THEN /\ outcome.value.cat = "list"
                /\ \A i \in 1..Len(outcome.value.val) :
                      outcome.value.val[i].cat = NativeTypeOf(res.cat)
           ELSE outcome.value.cat = NativeTypeOf(res.cat)

-----------------------------------------------------------------------------
(* Claims about Mel.__getattr__, checked under SpecCall *)

\* the command string the claim describes for an invocation
C3_Expected(c) ==
    LET conv(seq) == [i \in 1..Len(seq) |-> pythonToMel(seq[i])]
        flag(kw) == <<"-">> \o kw.key \o <<" ">> \o pythonToMel(kw.val)
        flags == [i \in 1..Len(c.kwargs) |-> flag(c.kwargs[i])]
    IN  IF Len(c.kwargs) = 0
        THEN c.command \o <<"(">> \o Join(<<",">>, conv(c.args)) \o <<")">>
        ELSE c.command \o <<" ">> \o Join(<<" ">>, flags) \o <<" ">>
                       \o Join(<<" ">>, conv(c.args))

C3_HandedToEval ==
    /\ evalLog = <<C3_Expected(callIn)>>
    /\ cmd = C3_Expected(callIn)
    /\ callOut = outcome
    /\ callOut.kind \in {"return", "raise"}

-----------------------------------------------------------------------------
(* Claims about pythonToMel, checked under SpecConv *)

\* C6: pythonToMel converts by the first rule that applies: a numeric value
\* becomes its plain string form; an iterable becomes '{' + the comma-joined
\* conversions of its elements in order + '}' (nested iterables nest, an
\* empty one gives '{}'); any other value becomes its encoded string form in
\* double quotes. The numeric test comes before the iterable test.
C6_FirstRule ==
    convArg # NoArg =>
        IF isNumeric(convArg) THEN convRes = Str(convArg)
        ELSE IF isIterable(convArg)
        THEN /\ convRes = <<"{">>
                    \o Join(<<",">>, [i \in 1..Len(Items(convArg)) |->
                                         pythonToMel(Items(convArg)[i])])
                    \o <<"}">>
             /\ Len(Items(convArg)) = 0 => convRes = <<"{", "}">>
        ELSE convRes = <<"\"">> \o encodeString(Str(convArg)) \o <<"\"">>

\* a nested list converted to nested braces
C6_Witness ==
    /\ convArg = Py("list", <<Py("list", <<Py("int", 12)>>), Py("str", <<"a">>)>>)
    /\ convRes = <<"{", "{", "1", "2", "}", ",", "\"", "a", "\"", "}">>

\* a value that is numeric and iterable converted as a number
C6_WitnessNumericFirst ==
    /\ convArg.cat = "Flags"
    /\ convRes = <<"3">>

-----------------------------------------------------------------------------
(* Claims about getMelType, checked under SpecGmt *)

\* C7: for an iterable instance getMelType returns the mel type name of the
\* first element followed by '[]'; for an empty list it returns 'string[]'.
C7_IterableInstance ==
    (gmtRes.kind = "return" /\ gmtArg.pyObj.cat = "list") =>
        IF Len(gmtArg.pyObj.val) = 0
        THEN gmtRes.value = PyStr(T_stringArray)
        ELSE gmtRes.value =
                PyStr(getMelType(gmtArg.pyObj.val[1], TRUE, FALSE, FALSE).val
                      \o S_Brackets)

\* the classes with an exact mel analog
AnalogBases == {"basestring", "int", "float", "VectorN", "MatrixN"}

\* C8: for an object with no exact mel analog, class or instance, getMelType
\* returns None when exactOnly is True and the python type name when
\* exactOnly is False.
C8_NoAnalog ==
    LET o == gmtArg.pyObj
        c == IF o.cat = "type" THEN o.val ELSE o.cat
    IN  (gmtRes.kind = "return" /\ Ancestors(c) \cap AnalogBases = {}) =>
            gmtRes.value = IF gmtArg.exactOnly THEN NoValue
                           ELSE PyStr(ClassName(c))

-----------------------------------------------------------------------------
(* Claims about MelGlobals, checked under SpecGlobals *)

\* what a call of the operation `op` does in the state (tm, mv)
GlobalsStep(op, tm, mv, variable, value, type) ==
    CASE op = "initVar" -> InitVarStep(tm, mv, type[1], variable)
      [] op = "get"     -> GetStep(tm, mv, variable, type)
      [] op = "set"     -> SetStep(tm, mv, variable, value, type)

\* C9: for every name n that does not start with '$', initVar, get and set
\* called with n do what the same call with '$'+n does: they read and write
\* the typeMap key '$'+n and send the same command text; a name that already
\* starts with '$' is not given a second '$'.
C9_DollarOptional ==
    [][ LET c == lastCall'
            n == c.variable
            d == IF Head(n) = "$" THEN n ELSE <<"$">> \o n
            s == GlobalsStep(c.op, typeMap, melVars, <<"$">> \o n, c.value,
                             c.type)
        IN  /\ DOMAIN typeMap' \subseteq DOMAIN typeMap \cup {d}
            /\ \A k \in DOMAIN typeMap : k # d => typeMap'[k] = typeMap[k]
            /\ \A i \in 1..Len(sent') :
                  Contains(sent'[i], d) /\ ~Contains(sent'[i], <<"$">> \o d)
            /\ Head(n) # "$" =>
                  /\ typeMap' = s.typeMap
                  /\ melVars' = s.melVars
                  /\ sent' = s.sent
                  /\ c.evals = s.evals
                  /\ c.outcome = s.outcome
      ]_vars

\* set called with a name without '$' stored the type under '$'+name and sent
\* a command naming '$'+name
C9_Witness ==
    /\ lastCall.op = "set"
    /\ lastCall.variable = <<"x">>
    /\ lastCall.outcome.kind = "return"
    /\ <<"$", "x">> \in DOMAIN typeMap
    /\ sent = << <<"g", "l", "o", "b", "a", "l", " ", "i", "n", "t", " ", "$",
                   "x", ";", " ", "$", "x", "=", "1", ";">> >>

\* C10: get and set take the variable's type from the explicitly passed type
\* if given, otherwise from typeMap, otherwise from the interpreter's whatIs
\* answer. If none yields a type, TypeError is raised, no get/set command is
\* sent and typeMap is unchanged; so a variable the interpreter does not know
\* is only created when its type came from initVar or an explicit type.
C10_TypeResolution ==
    [][ LET c == lastCall'
            n == c.variable
            key == IF Head(n) = "$" THEN n ELSE <<"$">> \o n
            explicit == c.type # None
            cached == key \in DOMAIN typeMap
            known == key \in DOMAIN melVars
        IN  c.op \in {"get", "set"} =>
              /\ c.evals # <<>> <=> (~explicit /\ ~cached)
              /\ (~explicit /\ ~cached /\ ~known) =>
                    /\ c.outcome.kind = "raise"
                    /\ c.outcome.exc = "TypeError"
                    /\ sent' = <<>>
                    /\ typeMap' = typeMap
                    /\ melVars' = melVars
              /\ (explicit \/ cached \/ known) =>
                    LET type == IF explicit THEN c.type[1]
                                ELSE IF cached THEN typeMap[key]
                                ELSE melVars[key]
                    IN  IF isValidMelType(type)
                        THEN /\ typeMap'[key] = type
                             /\ Len(sent') = 1
                             /\ Contains(sent'[1],
                                         IF EndsWith(type, S_Brackets)
                                         THEN DropLast2(type) \o <<" ">>
                                              \o key \o S_Brackets
                                         ELSE type \o <<" ">> \o key)
                        ELSE /\ c.outcome.exc = "TypeError"
                             /\ sent' = <<>>
                             /\ typeMap' = typeMap
              /\ (key \notin DOMAIN melVars /\ key \in DOMAIN melVars') =>
                    (explicit \/ cached)
      ]_vars

\* get of an unknown variable without a type: whatIs was asked, TypeError
\* was raised and nothing was sent
C10_Witness ==
    /\ lastCall.op = "get"
    /\ lastCall.variable = <<"x">>
    /\ lastCall.type = None
    /\ lastCall.evals # <<>>
    /\ lastCall.outcome.exc = "TypeError"
    /\ sent = <<>>
    /\ typeMap = <<>>

\* the type text a get or set command declares its variable with
DeclaredAs(type, key) ==
    IF EndsWith(type, S_Brackets)
    THEN <<"g", "l", "o", "b", "a", "l", " ">> \o DropLast2(type) \o <<" ">>
         \o key \o S_Brackets \o <<";">>
    ELSE <<"g", "l", "o", "b", "a", "l", " ">> \o type \o <<" ">> \o key
         \o <<";">>

\* C11: typeMap starts empty and is only written by the calls; after any
\* sequence of initVar, get and set calls every key of typeMap starts with
\* '$' and every value is one of MELTYPES. Every get or set that sent its
\* command to the interpreter has recorded under the variable's key the type
\* the command declares, and a get or set without an explicit type of a
\* variable that has a recorded type declares that recorded type and asks no
\* whatIs.
C11_TypeCache ==
    /\ [](\A k \in DOMAIN typeMap :
             /\ Head(k) = "$"
             /\ \E i \in 1..Len(MELTYPES) : typeMap[k] = MELTYPES[i])
    /\ [][ LET c == lastCall'
               n == c.variable
               key == IF Head(n) = "$" THEN n ELSE <<"$">> \o n
           IN  /\ DOMAIN typeMap \subseteq DOMAIN typeMap'
               /\ c.op \in {"get", "set"} =>
                     /\ sent' # <<>> =>
                           /\ key \in DOMAIN typeMap'
                           /\ Contains(sent'[1],
                                         DeclaredAs(typeMap'[key], key))
                     /\ (c.type = None /\ key \in DOMAIN typeMap) =>
                           /\ c.evals = <<>>
                           /\ Len(sent') = 1
                           /\ Contains(sent'[1],
                                         DeclaredAs(typeMap[key], key))
                           /\ typeMap' = typeMap
         ]_vars

\* after set recorded int for '$x', a get of x without a type asked no whatIs
\* and declared '$x' as int
C11_Witness ==
    /\ lastCall.op = "get"
    /\ lastCall.variable = <<"x">>
    /\ lastCall.type = None
    /\ lastCall.evals = <<>>
    /\ lastCall.outcome.kind = "return"
    /\ typeMap = [k \in {<<"$", "x">>} |-> T_int]
    /\ Len(sent) = 1
    /\ Contains(sent[1], DeclaredAs(T_int, <<"$", "x">>))

\* the messages of a list that hold one of the classified substrings
Classified(errs) ==
    {i \in 1..Len(errs) :
        \/ Contains(errs[i], S_CannotFindProcedure)
        \/ Contains(errs[i], S_WrongNumberOfArguments)
        \/ Contains(errs[i], S_CannotConvertData)
        \/ Contains(errs[i], S_CannotCastData)}

\* C12: every eval empties the error list when it starts; while its command
\* runs, a delivered line is appended at the end of the list exactly when it
\* is of error type and its text is not empty, and nothing else changes the
\* list; a failing eval raises with the message 'Error occurred during
\* execution of MEL script: ' followed by the list joined by newlines. So the
\* message and the category of an eval's error come from the lines delivered
\* during that eval only: when none of them holds a classified substring the
\* error is a plain MelError, whatever an earlier eval collected.
C12_DiagnosticsPerEval ==
    [][ /\ (pc = "idle" /\ pc' = "executing") => errors' = <<>>
        /\ (pc = "executing" /\ pc' = "executing") =>
              /\ delivered' \in [nativeMsg : HostMessages,
                                 messageType : MessageTypes]
              /\ errors' = IF /\ delivered'.messageType = "kError"
                              /\ delivered'.nativeMsg # <<>>
                           THEN Append(errors, delivered'.nativeMsg)
                           ELSE errors
        /\ (pc = "executing" /\ pc' = "idle") =>
              /\ errors' = errors
              /\ execOk' = "failed" =>
                    /\ outcome'.kind = "raise"
                    /\ outcome'.msg = S_ErrorOccurred \o Join(NL, errors)
                    /\ Classified(errors) = {} => outcome'.exc = "MelError"
      ]_vars

\* the second eval fails after one unclassified error line: the first eval's
\* lines are gone and the error is a plain MelError carrying that line only
C12_Witness ==
    /\ pc = "idle"
    /\ Len(removed) = 2
    /\ execOk = "failed"
    /\ errors = <<M_syntax>>
    /\ outcome.exc = "MelError"
    /\ outcome.msg = S_ErrorOccurred \o M_syntax

====
